---- MODULE Spec2Model ----
(***************************************************************************)
(* Relevance search, scoring and external-score fusion of                  *)
(* pst_email_searcher.py: EmailSearcher (_prepare_companies,               *)
(* _check_companies, _score_relevance, search), AIRelevanceScorer          *)
(* .score_emails and the part of main() that drives them.                  *)
(*                                                                         *)
(* Text is modelled as a sequence of ASCII code points, so that lower(),   *)
(* strip(), split(), substring containment and the lexical order of the    *)
(* sort key are computed as Python computes them.  An optional value is    *)
(* None (the empty tuple) or Some(x) (a one-element tuple).                *)
(***************************************************************************)
EXTENDS Integers, Sequences, FiniteSets, TLC

VARIABLES
    emails,      \* the EmailRecord objects, by position in the parsed list
    companies,   \* EmailSearcher.companies (prepared entries)
    keywords,    \* EmailSearcher.keywords (ordered categories)
    results,     \* EmailSearcher.results / main's results: references into emails
    pc,          \* position in main()
    exit_code,   \* None, or Some(status passed to sys.exit)
    batch_size,  \* score_emails parameter
    i,           \* score_emails: start of the current batch (0-based)
    scored,      \* score_emails: the reported counter
    entries,     \* results entries of the current response already iterated
    ranked,      \* history: the list search() returned
    snapshot,    \* history: the EmailRecord objects when search() returned
    writes,      \* history: assignments of ai_relevance_score per document
    failed,      \* history: start indices of the batches whose processing raised
    counters     \* search(): company_matches, keyword_matches, both_matches

vars == <<emails, companies, keywords, results, pc, exit_code, batch_size, i,
          scored, entries, ranked, snapshot, writes, failed, counters>>

----------------------------------------------------------------------------
(* Bounds of the model *)

MaxEmails == 3
MaxEntries == 2

----------------------------------------------------------------------------
(* Python values *)

None == <<>>
Some(x) == <<x>>

Min(a, b) == IF a < b THEN a ELSE b

\* str.lower() on one character / on a string
LowerChar(c) == IF c >= 65 /\ c <= 90 THEN c + 32 ELSE c
Lower(s) == [k \in 1..Len(s) |-> LowerChar(s[k])]

\* characters str.strip() removes
IsSpace(c) == (c >= 9 /\ c <= 13) \/ (c >= 28 /\ c <= 32)

Strip(s) ==
    LET keep == {k \in 1..Len(s) : ~IsSpace(s[k])}
    IN  IF keep = {} THEN <<>>
        ELSE LET lo == CHOOSE k \in keep : \A m \in keep : k <= m
                 hi == CHOOSE k \in keep : \A m \in keep : k >= m
             IN  SubSeq(s, lo, hi)

\* needle in hay (plain substring containment; "" is in every string)
Contains(needle, hay) ==
    \E k \in 0..(Len(hay) - Len(needle)) :
        SubSeq(hay, k + 1, k + Len(needle)) = needle

EndsWith(s, suffix) ==
    /\ Len(suffix) <= Len(s)
    /\ SubSeq(s, Len(s) - Len(suffix) + 1, Len(s)) = suffix

\* s.split(c) for a one-character separator c
RECURSIVE Split(_, _)
Split(s, c) ==
    LET at == {k \in 1..Len(s) : s[k] = c}
    IN  IF at = {} THEN <<s>>
        ELSE LET k == CHOOSE x \in at : \A y \in at : x <= y
             IN  <<SubSeq(s, 1, k - 1)>> \o Split(SubSeq(s, k + 1, Len(s)), c)

\* " ".join(parts)
RECURSIVE JoinSpace(_)
JoinSpace(parts) ==
    IF Len(parts) = 0 THEN <<>>
    ELSE IF Len(parts) = 1 THEN parts[1]
    ELSE parts[1] \o <<32>> \o JoinSpace(Tail(parts))

\* s < t for Python strings: lexical order by code point
StrLess(s, t) ==
    \E k \in 0..Min(Len(s), Len(t)) :
        /\ SubSeq(s, 1, k) = SubSeq(t, 1, k)
        /\ \/ k = Len(s) /\ k < Len(t)
           \/ k < Len(s) /\ k < Len(t) /\ s[k + 1] < t[k + 1]

\* "x or ''" for an optional string
OrEmpty(x) == IF x = None THEN <<>> ELSE x[1]

\* truth value of an optional number (None and 0 are falsy)
Truthy(x) == x /= None /\ x[1] /= 0

RECURSIVE SumSeq(_)
SumSeq(s) == IF s = <<>> THEN 0 ELSE s[1] + SumSeq(Tail(s))

----------------------------------------------------------------------------
(* EmailRecord *)

EmailRecord(subject, sender, sender_email, recipients, cc, bcc, date_str, body) ==
    [subject |-> subject, sender |-> sender, sender_email |-> sender_email,
     recipients |-> recipients, cc |-> cc, bcc |-> bcc,
     date_str |-> date_str, body |-> body,
     relevance_score |-> 0,
     matched_keywords |-> <<>>,
     matched_categories |-> {},
     matched_companies |-> <<>>,
     ai_relevance_score |-> None,
     ai_summary |-> <<>>]

----------------------------------------------------------------------------
(* EmailSearcher._prepare_companies *)

Suffixes ==
    << <<32, 108, 108, 99>>,                               \* " llc"
       <<32, 105, 110, 99>>,                               \* " inc"
       <<32, 99, 111, 114, 112>>,                          \* " corp"
       <<32, 108, 116, 100>>,                              \* " ltd"
       <<32, 99, 111>>,                                    \* " co"
       <<32, 99, 111, 109, 112, 97, 110, 121>>,            \* " company"
       <<32, 103, 114, 111, 117, 112>>,                    \* " group"
       <<32, 112, 97, 114, 116, 110, 101, 114, 115>>,      \* " partners"
       <<32, 115, 101, 114, 118, 105, 99, 101, 115>>,      \* " services"
       <<32, 115, 111, 108, 117, 116, 105, 111, 110, 115>>,\* " solutions"
       <<44, 32, 108, 108, 99>>,                           \* ", llc"
       <<44, 32, 105, 110, 99>>,                           \* ", inc"
       <<44, 32, 99, 111, 114, 112>>,                      \* ", corp"
       <<44, 32, 108, 116, 100>> >>                        \* ", ltd"

\* the variations of one stripped, non-empty company string
Variations(company) ==
    LET hasAt  == Contains(<<64>>, company)
        hasDot == Contains(<<46>>, company)
        domain == Lower(Split(company, 64)[2])
    IN  {Lower(company)}
        \cup (IF hasAt THEN {domain, Split(domain, 46)[1]} ELSE {})
        \cup (IF hasDot /\ ~hasAt THEN {Lower(Split(company, 46)[1])} ELSE {})
        \cup {Strip(Lower(SubSeq(company, 1, Len(company) - Len(Suffixes[k])))) :
                k \in {m \in 1..Len(Suffixes) : EndsWith(Lower(company), Suffixes[m])}}

RECURSIVE PrepareCompanies(_)
PrepareCompanies(raw) ==
    IF raw = <<>> THEN <<>>
    ELSE LET company == Strip(raw[1])
         IN  IF company = <<>> THEN PrepareCompanies(Tail(raw))
             ELSE <<[original |-> company,
                     lower |-> Lower(company),
                     variations |-> Variations(company)]>>
                  \o PrepareCompanies(Tail(raw))

----------------------------------------------------------------------------
(* EmailSearcher._check_companies *)

AddressText_NoBcc(email) ==
    Lower(JoinSpace(<<email.sender, email.sender_email, email.recipients, email.cc>>))

\* " ".join([sender, sender_email, recipients, cc, bcc]).lower()
AddressText(email) ==
    Lower(JoinSpace(<<email.sender, email.sender_email, email.recipients,
                      email.cc, email.bcc>>))

\* the loop over company["variations"]: TRUE when it appends and breaks
RECURSIVE VariationLoop(_, _)
VariationLoop(todo, email) ==
    IF todo = {} THEN FALSE
    ELSE LET variation == CHOOSE v \in todo : TRUE
         IN  IF Contains(variation, AddressText(email)) THEN TRUE
             ELSE IF \/ Contains(variation, Lower(email.subject))
                     \/ Contains(variation, Lower(email.body)) THEN TRUE
             ELSE VariationLoop(todo \ {variation}, email)

CheckCompaniesFrom_LastOnly(cs, email) ==
    IF cs = <<>> THEN <<>>
    ELSE IF VariationLoop(cs[Len(cs)].variations, email)
         THEN <<cs[Len(cs)].original>> ELSE <<>>

\* the loop over self.companies: the originals of the entries that matched, in
\* the order of the party list
RECURSIVE CheckCompaniesFrom(_, _)
CheckCompaniesFrom(cs, email) ==
    IF cs = <<>> THEN <<>>
    ELSE (IF VariationLoop(cs[1].variations, email) THEN <<cs[1].original>> ELSE <<>>)
         \o CheckCompaniesFrom(Tail(cs), email)

CheckCompanies(email) == CheckCompaniesFrom(companies, email)

----------------------------------------------------------------------------
(* EmailSearcher._score_relevance *)

\* the (category, term) pairs in the order the two nested loops visit them
RECURSIVE TermPairs(_)
TermPairs(kw) ==
    IF kw = <<>> THEN <<>>
    ELSE [k \in 1..Len(kw[1].terms) |->
            [category |-> kw[1].name, weight |-> kw[1].weight, term |-> kw[1].terms[k]]]
         \o TermPairs(Tail(kw))

Searchable(email) == Lower(email.subject \o <<32>> \o email.body)

TermMatches(term, searchable) == Contains(Lower(term), searchable)

\* a scorer that counts a term once however many categories list it
ScoreRelevance_OncePerTerm(email) ==
    LET searchable == Searchable(email)
        pairs == TermPairs(keywords)
        first == {k \in 1..Len(pairs) :
                    \A m \in 1..(k - 1) : pairs[m].term /= pairs[k].term}
        hits == SelectSeq([k \in 1..Len(pairs) |-> [pairs[k] EXCEPT !.weight =
                              IF k \in first THEN @ ELSE 0]],
                          LAMBDA p : p.weight > 0 /\ TermMatches(p.term, searchable))
    IN  IF Strip(searchable) = <<>>
        THEN [score |-> 0, matched_keywords |-> <<>>, matched_categories |-> {}]
        ELSE [score |-> SumSeq([k \in 1..Len(hits) |-> hits[k].weight]),
              matched_keywords |-> [k \in 1..Len(hits) |-> hits[k].term],
              matched_categories |-> {hits[k].category : k \in 1..Len(hits)}]

\* returns [score, matched_keywords, matched_categories]
ScoreRelevance(email) ==
    LET searchable == Searchable(email)
        hits == SelectSeq(TermPairs(keywords),
                          LAMBDA p : TermMatches(p.term, searchable))
    IN  IF Strip(searchable) = <<>>
        THEN [score |-> 0, matched_keywords |-> <<>>, matched_categories |-> {}]
        ELSE [score |-> SumSeq([k \in 1..Len(hits) |-> hits[k].weight]),
              matched_keywords |-> [k \in 1..Len(hits) |-> hits[k].term],
              matched_categories |-> {hits[k].category : k \in 1..Len(hits)}]

----------------------------------------------------------------------------
(* EmailSearcher.search *)

MinimumScore == 1

\* "if matched_companies and score > 0"
IsHit(matched_companies, score) == matched_companies /= <<>> /\ score > 0

IsCompanyOnly_OrKeywords(matched_companies, score) ==
    matched_companies /= <<>> \/ score > 0

\* "elif matched_companies"
IsCompanyOnly(matched_companies, score) == matched_companies /= <<>>

HitScore_NoBoost(score) == score

\* "email.relevance_score = score * 2"
HitScore(score) == score * 2

\* one iteration of the loop: the annotations written to the EmailRecord
SearchOne(email) ==
    LET mc == CheckCompanies(email)
        r  == ScoreRelevance(email)
        e1 == IF mc /= <<>> THEN [email EXCEPT !.matched_companies = mc] ELSE email
        e2 == IF r.score > 0
              THEN [e1 EXCEPT !.matched_keywords = r.matched_keywords,
                              !.matched_categories = r.matched_categories,
                              !.relevance_score = r.score]
              ELSE e1
    IN  IF IsHit(mc, r.score) THEN [e2 EXCEPT !.relevance_score = HitScore(r.score)]
        ELSE IF IsCompanyOnly(mc, r.score) THEN [e2 EXCEPT !.relevance_score = MinimumScore]
        ELSE e2

\* one iteration of the loop: whether the EmailRecord is appended to self.results
Appended(email) ==
    LET mc == CheckCompanies(email)
        r  == ScoreRelevance(email)
    IN  IsHit(mc, r.score) \/ IsCompanyOnly(mc, r.score)

InsertStable_BeforeEqual(sorted, x, less) ==
    LET k == Cardinality({m \in 1..Len(sorted) : <<sorted[m], x>> \in less})
    IN  SubSeq(sorted, 1, k) \o <<x>> \o SubSeq(sorted, k + 1, Len(sorted))

\* list.sort(key=...): a stable sort; x is placed after every element whose key
\* is not greater than its own.  less is the set of pairs <<x, y>> with
\* key(x) < key(y)
InsertStable(sorted, x, less) ==
    LET k == Cardinality({m \in 1..Len(sorted) : <<x, sorted[m]>> \notin less})
    IN  SubSeq(sorted, 1, k) \o <<x>> \o SubSeq(sorted, k + 1, Len(sorted))

RECURSIVE StableSortFrom(_, _, _)
StableSortFrom(sorted, rest, less) ==
    IF rest = <<>> THEN sorted
    ELSE StableSortFrom(InsertStable(sorted, rest[1], less), Tail(rest), less)

StableSort(list, less) == StableSortFrom(<<>>, list, less)

SearchKeyLess_DateFirst(a, b) ==
    \/ StrLess(OrEmpty(a.date_str), OrEmpty(b.date_str))
    \/ /\ OrEmpty(a.date_str) = OrEmpty(b.date_str)
       /\ -a.relevance_score < -b.relevance_score

SearchKeyLess_ScoreOnly(a, b) == -a.relevance_score < -b.relevance_score

\* key=lambda e: (-e.relevance_score, e.date_str or ""), compared as tuples
SearchKeyLess(a, b) ==
    \/ -a.relevance_score < -b.relevance_score
    \/ /\ a.relevance_score = b.relevance_score
       /\ StrLess(OrEmpty(a.date_str), OrEmpty(b.date_str))

SearchSort(list, es) ==
    StableSort(list, {p \in (DOMAIN es) \X (DOMAIN es) : SearchKeyLess(es[p[1]], es[p[2]])})

----------------------------------------------------------------------------
(* AIRelevanceScorer.score_emails and main's boost *)

\* batch = emails[i:i + batch_size], as positions of the list passed in
Batch(list, start, size) ==
    SubSeq(list, start + 1, Min(start + size, Len(list)))

Boosted_Replace(email) ==
    [email EXCEPT !.relevance_score = email.ai_relevance_score[1] * 2]

\* "email.relevance_score += email.ai_relevance_score * 2"
Boosted(email) ==
    [email EXCEPT !.relevance_score = @ + email.ai_relevance_score[1] * 2]

\* "for email in results: if email.ai_relevance_score: ..."; list holds each
\* reference once or several times, and every occurrence is visited
RECURSIVE BoostLoop(_, _)
BoostLoop(list, es) ==
    IF list = <<>> THEN es
    ELSE LET e == es[list[1]]
         IN  BoostLoop(Tail(list),
                       IF Truthy(e.ai_relevance_score)
                       THEN [es EXCEPT ![list[1]] = Boosted(e)]
                       ELSE es)

FusionKeyLess_WithDate(a, b) == SearchKeyLess(a, b)

\* key=lambda e: -e.relevance_score
FusionKeyLess(a, b) == -a.relevance_score < -b.relevance_score

FusionSort_ScoredOnly(list, es) ==
    StableSort(SelectSeq(list, LAMBDA k : es[k].ai_relevance_score /= None),
               {p \in (DOMAIN es) \X (DOMAIN es) : FusionKeyLess(es[p[1]], es[p[2]])})

FusionSort(list, es) ==
    StableSort(list, {p \in (DOMAIN es) \X (DOMAIN es) : FusionKeyLess(es[p[1]], es[p[2]])})

----------------------------------------------------------------------------
(* Inputs: the parsed emails, the company list and the keyword categories *)

Date1 == <<50, 48, 50, 52, 45, 48, 49, 45, 48, 49, 32, 49, 55, 58, 51, 48, 58, 48, 48>>   \* "2024-01-01 17:30:00"
Date2 == <<50, 48, 50, 52, 45, 48, 49, 45, 48, 50, 32, 48, 57, 58, 48, 48, 58, 48, 48>>   \* "2024-01-02 09:00:00"

\* from Bob <bob@acme.com> to "Sue <sue@beta.org>", body "we terminate due to no authorization"
DocA == EmailRecord(<<>>, <<66, 111, 98>>, <<98, 111, 98, 64, 97, 99, 109, 101, 46, 99, 111, 109>>, <<83, 117, 101, 32, 60, 115, 117, 101, 64, 98, 101, 116, 97, 46, 111, 114, 103, 62>>, <<>>, <<>>, Some(Date2), <<119, 101, 32, 116, 101, 114, 109, 105, 110, 97, 116, 101, 32, 100, 117, 101, 32, 116, 111, 32, 110, 111, 32, 97, 117, 116, 104, 111, 114, 105, 122, 97, 116, 105, 111, 110>>)
\* the same body from bob@other.com
DocB == EmailRecord(<<>>, <<>>, <<98, 111, 98, 64, 111, 116, 104, 101, 114, 46, 99, 111, 109>>, <<>>, <<>>, <<>>, Some(Date2), <<119, 101, 32, 116, 101, 114, 109, 105, 110, 97, 116, 101, 32, 100, 117, 101, 32, 116, 111, 32, 110, 111, 32, 97, 117, 116, 104, 111, 114, 105, 122, 97, 116, 105, 111, 110>>)
\* amy@other.com, subject "Disorder", body "ACME Inc lead"
DocC == EmailRecord(<<68, 105, 115, 111, 114, 100, 101, 114>>, <<>>, <<97, 109, 121, 64, 111, 116, 104, 101, 114, 46, 99, 111, 109>>, <<>>, <<>>, <<>>, Some(Date1), <<65, 67, 77, 69, 32, 73, 110, 99, 32, 108, 101, 97, 100>>)
\* x@acme.com, empty subject and body, date_str ""
DocD == EmailRecord(<<>>, <<>>, <<120, 64, 97, 99, 109, 101, 46, 99, 111, 109>>, <<>>, <<>>, <<>>, Some(<<>>), <<>>)
\* al@acme.com, body "new order", date_str None
DocE == EmailRecord(<<>>, <<>>, <<97, 108, 64, 97, 99, 109, 101, 46, 99, 111, 109>>, <<>>, <<>>, <<>>, None, <<110, 101, 119, 32, 111, 114, 100, 101, 114>>)
\* to "Sue <sue@beta.org>", body "Lead"
DocF == EmailRecord(<<>>, <<>>, <<>>, <<83, 117, 101, 32, 60, 115, 117, 101, 64, 98, 101, 116, 97, 46, 111, 114, 103, 62>>, <<>>, <<>>, Some(Date2), <<76, 101, 97, 100>>)

DocPool == {DocA, DocB, DocC, DocD, DocE, DocF}

\* the lists handed to EmailSearcher(emails, companies, keywords)
NoCompanies == <<>>
AcmeDomain == << <<97, 99, 109, 101, 46, 99, 111, 109>> >>                   \* "acme.com"
AcmeAndBeta == << <<65, 99, 109, 101, 32, 73, 110, 99>>, <<32>>, <<98, 111, 98, 64, 98, 101, 116, 97, 46, 111, 114, 103>> >>      \* "Acme Inc", " ", "bob@beta.org"

CompanyLists == {NoCompanies, AcmeDomain, AcmeAndBeta}

\* "authorization" (3), "terminate" (3)
AuthTerm ==
    << [name |-> "auth", weight |-> 3, terms |-> << <<97, 117, 116, 104, 111, 114, 105, 122, 97, 116, 105, 111, 110>> >>],
       [name |-> "term", weight |-> 3, terms |-> << <<116, 101, 114, 109, 105, 110, 97, 116, 101>> >>] >>
\* a: "order", "Lead" (1); b: "order" (2)
OrderLead ==
    << [name |-> "a", weight |-> 1, terms |-> << <<111, 114, 100, 101, 114>>, <<76, 101, 97, 100>> >>],
       [name |-> "b", weight |-> 2, terms |-> << <<111, 114, 100, 101, 114>> >>] >>

Taxonomies == {AuthTerm, OrderLead}

\* what the external scorer may answer
ExtScores == {0, 1}
\* the response is not validated: a score outside the 1-10 scale the prompt asks
\* for is a possible answer too
UnvalidatedScores == {-4, 0, 1}
Summary == <<111, 107>>   \* "ok"

\* one element of the parsed JSON list; None stands for a missing key
ResultEntriesOver(n, scores) ==
    [email_number : {None} \cup {Some(k) : k \in (-1)..(n + 1)},
     score : {None} \cup {Some(v) : v \in scores},
     summary : {None, Some(Summary)}]

ResultEntries(n) == ResultEntriesOver(n, ExtScores)

DefaultBatchSize == 5
BatchSizes == {2, DefaultBatchSize}

SeqsUpTo(S, n) == UNION {[1..k -> S] : k \in 0..n}

----------------------------------------------------------------------------
(* main() *)

\* the state when main() has parsed the emails and built the EmailSearcher
InitWith(pool, lists, taxonomies) ==
    /\ emails \in SeqsUpTo(pool, MaxEmails)
    /\ \E raw \in lists : companies = PrepareCompanies(raw)
    /\ keywords \in taxonomies
    /\ results = <<>>
    /\ pc = "main"
    /\ exit_code = None
    /\ batch_size = DefaultBatchSize
    /\ i = 0
    /\ scored = 0
    /\ entries = 0
    /\ ranked = <<>>
    /\ snapshot = <<>>
    /\ writes = [k \in DOMAIN emails |-> 0]
    /\ failed = {}
    /\ counters = [company_matches |-> 0, keyword_matches |-> 0, both_matches |-> 0]

Init == InitWith({DocB, DocC, DocE}, {AcmeDomain}, {OrderLead})

SearchInit == InitWith(DocPool, CompanyLists, Taxonomies)

\* "if not emails: ... sys.exit(1)"
NoEmails ==
    /\ pc = "main"
    /\ emails = <<>>
    /\ pc' = "exit"
    /\ exit_code' = Some(1)
    /\ UNCHANGED <<counters, emails, companies, keywords, results, batch_size, i, scored,
                   entries, ranked, snapshot, writes, failed>>

CompanyIncrement_PerParty(matched_companies) == Len(matched_companies)

\* "if matched_companies: company_matches += 1"
CompanyIncrement(matched_companies) == IF matched_companies /= <<>> THEN 1 ELSE 0

\* the three counters after the loop over self.emails, each starting from 0
RECURSIVE SearchCounters(_)
SearchCounters(es) ==
    IF es = <<>>
    THEN [company_matches |-> 0, keyword_matches |-> 0, both_matches |-> 0]
    ELSE LET before == SearchCounters(SubSeq(es, 1, Len(es) - 1))
             mc == CheckCompanies(es[Len(es)])
             score == ScoreRelevance(es[Len(es)]).score
         IN  [company_matches |-> before.company_matches + CompanyIncrement(mc),
              keyword_matches |-> before.keyword_matches + (IF score > 0 THEN 1 ELSE 0),
              both_matches |-> before.both_matches + (IF IsHit(mc, score) THEN 1 ELSE 0)]

\* one call of search(): the loop over self.emails, which annotates the records
\* and appends to self.results, then the sort of self.results
SearchCall ==
    /\ counters' = SearchCounters(emails)
    /\ emails' = [k \in DOMAIN emails |-> SearchOne(emails[k])]
    /\ results' = SearchSort(
            results \o SelectSeq([k \in DOMAIN emails |-> k],
                                 LAMBDA k : Appended(emails[k])),
            emails')
    /\ ranked' = results'
    /\ snapshot' = emails'

\* "results = searcher.search()"
Search ==
    /\ pc = "main"
    /\ emails /= <<>>
    /\ SearchCall
    /\ pc' = "searched"
    /\ UNCHANGED <<companies, keywords, exit_code, batch_size, i, scored,
                   entries, writes, failed>>

\* "if not results: ... sys.exit(0)"
NoResults ==
    /\ pc = "searched"
    /\ results = <<>>
    /\ pc' = "exit"
    /\ exit_code' = Some(0)
    /\ UNCHANGED <<counters, emails, companies, keywords, results, batch_size, i, scored,
                   entries, ranked, snapshot, writes, failed>>

\* args.ai_score is false
SkipScoring ==
    /\ pc = "searched"
    /\ results /= <<>>
    /\ pc' = "done"
    /\ UNCHANGED <<counters, emails, companies, keywords, results, exit_code, batch_size, i,
                   scored, entries, ranked, snapshot, writes, failed>>

\* score_emails with no client: "if not self.client: return emails"
ScoreEmailsNoClient ==
    /\ pc = "searched"
    /\ results /= <<>>
    /\ pc' = "boost"
    /\ UNCHANGED <<counters, emails, companies, keywords, results, exit_code, batch_size, i,
                   scored, entries, ranked, snapshot, writes, failed>>

\* score_emails with a client: "scored = 0", the batch loop starts
ScoreEmailsStart ==
    /\ pc = "searched"
    /\ results /= <<>>
    /\ batch_size' \in BatchSizes
    /\ i' = 0
    /\ scored' = 0
    /\ pc' = "batch"
    /\ UNCHANGED <<counters, emails, companies, keywords, results, exit_code, entries,
                   ranked, snapshot, writes, failed>>

\* the request raises, or json.loads raises: the except clause, next batch
RequestRaises ==
    /\ pc = "batch"
    /\ i < Len(results)
    /\ failed' = failed \cup {i}
    /\ i' = i + batch_size
    /\ UNCHANGED <<counters, emails, companies, keywords, results, pc, exit_code, batch_size,
                   scored, entries, ranked, snapshot, writes>>

\* the response holds no JSON list: "if json_match" is false, next batch
NoJsonMatch ==
    /\ pc = "batch"
    /\ i < Len(results)
    /\ i' = i + batch_size
    /\ UNCHANGED <<counters, emails, companies, keywords, results, pc, exit_code, batch_size,
                   scored, entries, ranked, snapshot, writes, failed>>

\* the response parses to a list: "for result in results" starts
JsonParsed ==
    /\ pc = "batch"
    /\ i < Len(results)
    /\ entries' = 0
    /\ pc' = "results"
    /\ UNCHANGED <<counters, emails, companies, keywords, results, exit_code, batch_size, i,
                   scored, ranked, snapshot, writes, failed>>

\* the except clause after a KeyError inside the loop over the list
KeyError ==
    /\ failed' = failed \cup {i}
    /\ i' = i + batch_size
    /\ entries' = 0
    /\ pc' = "batch"

InRange_AnyPythonIndex(idx, batch) == -Len(batch) <= idx /\ idx < Len(batch)

\* "if 0 <= idx < len(batch)"
InRange(idx, batch) == 0 <= idx /\ idx < Len(batch)

\* batch[idx]: Python counts a negative index from the end of the list
PyIndex(batch, idx) ==
    IF idx < 0 THEN batch[Len(batch) + idx + 1] ELSE batch[idx + 1]

\* the records after one iteration of "for result in results" on an entry that
\* has all three keys
WriteEntry(es, batch, result) ==
    LET idx == result.email_number[1] - 1
    IN  IF InRange(idx, batch)
        THEN [es EXCEPT ![PyIndex(batch, idx)].ai_relevance_score = result.score,
                        ![PyIndex(batch, idx)].ai_summary = result.summary[1]]
        ELSE es

\* one iteration of "for result in results", the scores drawn from a given set
NextResultOver(scores) ==
    /\ pc = "results"
    /\ entries < MaxEntries
    /\ LET batch == Batch(results, i, batch_size)
       IN  \E result \in ResultEntriesOver(Len(batch), scores) :
             IF result.email_number = None
             THEN /\ KeyError
                  /\ UNCHANGED <<emails, scored, writes>>
             ELSE LET idx == result.email_number[1] - 1
                  IN  IF InRange(idx, batch)
                      THEN IF result.score = None
                           THEN /\ KeyError
                                /\ UNCHANGED <<emails, scored, writes>>
                           ELSE IF result.summary = None
                           THEN /\ emails' = [emails EXCEPT
                                       ![PyIndex(batch, idx)].ai_relevance_score = result.score]
                                /\ writes' = [writes EXCEPT ![PyIndex(batch, idx)] = @ + 1]
                                /\ KeyError
                                /\ UNCHANGED scored
                           ELSE /\ emails' = WriteEntry(emails, batch, result)
                                /\ writes' = [writes EXCEPT ![PyIndex(batch, idx)] = @ + 1]
                                /\ scored' = scored + 1
                                /\ entries' = entries + 1
                                /\ UNCHANGED <<i, pc, failed>>
                      ELSE /\ entries' = entries + 1
                           /\ UNCHANGED <<emails, i, pc, scored, writes, failed>>
    /\ UNCHANGED <<counters, companies, keywords, results, exit_code, batch_size, ranked, snapshot>>

\* one iteration of "for result in results"
NextResult == NextResultOver(ExtScores)

\* the list is exhausted: next batch
EndResults ==
    /\ pc = "results"
    /\ i' = i + batch_size
    /\ entries' = 0
    /\ pc' = "batch"
    /\ UNCHANGED <<counters, emails, companies, keywords, results, exit_code, batch_size,
                   scored, ranked, snapshot, writes, failed>>

\* the batch loop ends: "return emails"
ScoreEmailsReturn ==
    /\ pc = "batch"
    /\ i >= Len(results)
    /\ pc' = "boost"
    /\ UNCHANGED <<counters, emails, companies, keywords, results, exit_code, batch_size, i,
                   scored, entries, ranked, snapshot, writes, failed>>

\* main: the boost loop and "results.sort(key=lambda e: -e.relevance_score)"
Boost ==
    /\ pc = "boost"
    /\ emails' = BoostLoop(results, emails)
    /\ results' = FusionSort(results, emails')
    /\ pc' = "done"
    /\ UNCHANGED <<counters, companies, keywords, exit_code, batch_size, i, scored, entries,
                   ranked, snapshot, writes, failed>>

Next ==
    \/ NoEmails
    \/ Search
    \/ NoResults
    \/ SkipScoring
    \/ ScoreEmailsNoClient
    \/ ScoreEmailsStart
    \/ RequestRaises
    \/ NoJsonMatch
    \/ JsonParsed
    \/ NextResult
    \/ EndResults
    \/ ScoreEmailsReturn
    \/ Boost

Spec == Init /\ [][Next]_vars

\* main() with a scorer whose answers are not confined to the prompt's scale
UnvalidatedNext ==
    \/ NoEmails
    \/ Search
    \/ NoResults
    \/ SkipScoring
    \/ ScoreEmailsNoClient
    \/ ScoreEmailsStart
    \/ RequestRaises
    \/ NoJsonMatch
    \/ JsonParsed
    \/ NextResultOver(UnvalidatedScores)
    \/ EndResults
    \/ ScoreEmailsReturn
    \/ Boost

UnvalidatedSpec == Init /\ [][UnvalidatedNext]_vars

\* search() called once more on the same EmailSearcher; the number of calls is
\* capped by the length of self.results
SearchAgain ==
    /\ pc = "searched"
    /\ Len(results) <= MaxEmails
    /\ SearchCall
    /\ UNCHANGED <<companies, keywords, pc, exit_code, batch_size, i, scored,
                   entries, writes, failed>>

\* EmailSearcher(emails, companies, keywords) constructed over the same records:
\* "self.results = []", the records keep what earlier runs wrote to them
NewSearcher ==
    /\ pc = "searched"
    /\ \E raw \in {NoCompanies, AcmeDomain} : companies' = PrepareCompanies(raw)
    /\ keywords' \in Taxonomies
    /\ results' = <<>>
    /\ pc' = "main"
    /\ UNCHANGED <<counters, emails, exit_code, batch_size, i, scored, entries, ranked,
                   snapshot, writes, failed>>

RerunInit == InitWith({DocA, DocB}, {NoCompanies, AcmeDomain}, Taxonomies)

\* search() run any number of times over one list of records
RerunNext ==
    \/ NoEmails
    \/ Search
    \/ SearchAgain
    \/ NewSearcher

RerunSpec == RerunInit /\ [][RerunNext]_vars

\* search() alone, over the full set of inputs
SearchNext ==
    \/ NoEmails
    \/ Search
    \/ NoResults

SearchSpec == SearchInit /\ [][SearchNext]_vars

----------------------------------------------------------------------------
(* Properties *)

InResults(k) == \E j \in 1..Len(results) : results[j] = k

\* some variant of some party entry occurs in an address field, the subject or the body
PartyMatched(email) ==
    \E c \in 1..Len(companies) : \E v \in companies[c].variations :
        \/ Contains(v, AddressText(email))
        \/ Contains(v, Lower(email.subject))
        \/ Contains(v, Lower(email.body))

SearchReturned == pc /= "main" /\ snapshot /= <<>>

\* C1: a document is in the list search() returns exactly when at least one party
\* entry matched it, whatever its keyword score; with an empty party list the list
\* is empty, and main() then leaves with status 0.
C1_InclusionPolicy ==
    SearchReturned =>
        /\ \A k \in DOMAIN emails : InResults(k) <=> PartyMatched(emails[k])
        /\ (companies = <<>> => results = <<>>)
        /\ (pc = "exit" => exit_code = Some(0))

C1_Witness ==
    /\ pc = "exit"
    /\ companies = <<>>
    /\ results = <<>>
    /\ \E k \in DOMAIN emails : ScoreRelevance(emails[k]).score > 0

\* C2: an included document has score kwScore * 2 when its keyword score kwScore
\* is positive and 1 when kwScore is 0, however many parties matched.
C2_ScorePolicy ==
    SearchReturned =>
        \A j \in 1..Len(results) :
            LET e  == emails[results[j]]
                kw == ScoreRelevance(e).score
            IN  /\ kw > 0 => e.relevance_score = kw * 2
                /\ kw = 0 => e.relevance_score = 1

C2_Witness ==
    /\ pc = "searched"
    /\ \E j, m \in 1..Len(results) :
        /\ ScoreRelevance(emails[results[j]]).score = 6
        /\ emails[results[j]].relevance_score = 12
        /\ Len(emails[results[j]].matched_companies) = 2
        /\ ScoreRelevance(emails[results[m]]).score = 0
        /\ emails[results[m]].relevance_score = 1

DateKey(k) == OrEmpty(emails[k].date_str)

\* C3: the list search() returns is ordered by score, highest first, and within
\* one score by date string ascending, a missing date counting as "".
C3_SearchOrder ==
    pc = "searched" =>
        \A a, b \in 1..Len(results) :
            a < b =>
                /\ emails[results[a]].relevance_score >= emails[results[b]].relevance_score
                /\ emails[results[a]].relevance_score = emails[results[b]].relevance_score
                     => ~StrLess(DateKey(results[b]), DateKey(results[a]))

C3_Witness ==
    /\ pc = "searched"
    /\ \E a, b, c \in 1..Len(results) :
        /\ a < b /\ b < c
        /\ emails[results[a]].relevance_score > emails[results[b]].relevance_score
        /\ emails[results[b]].relevance_score = emails[results[c]].relevance_score
        /\ emails[results[b]].date_str = None
        /\ DateKey(results[c]) /= <<>>
        /\ results[c] < results[b]

\* C4: two qualifying documents with the same score and the same date key keep,
\* in the list search() returns, the order they have in the input.
C4_SearchStable ==
    pc = "searched" =>
        \A a, b \in 1..Len(results) :
            /\ a < b
            /\ emails[results[a]].relevance_score = emails[results[b]].relevance_score
            /\ DateKey(results[a]) = DateKey(results[b])
            => results[a] < results[b]

C4_Witness ==
    /\ pc = "searched"
    /\ \E a, b \in 1..Len(results) :
        /\ a < b
        /\ emails[results[a]].relevance_score = emails[results[b]].relevance_score
        /\ emails[results[a]].date_str = Some(<<>>)
        /\ emails[results[b]].date_str = None
    /\ \E a, b \in 1..Len(results) :
        /\ a < b
        /\ emails[results[a]].relevance_score > emails[results[b]].relevance_score
        /\ results[a] > results[b]

\* the (category, term) positions whose lowercased term occurs in the lowercased
\* "subject body" text
MatchingPairs(email) ==
    {p \in UNION {{<<c, k>> : k \in 1..Len(keywords[c].terms)} : c \in 1..Len(keywords)} :
        Contains(Lower(keywords[p[1]].terms[p[2]]),
                 Lower(email.subject \o <<32>> \o email.body))}

RECURSIVE SumWeights(_)
SumWeights(pairs) ==
    IF pairs = {} THEN 0
    ELSE LET p == CHOOSE q \in pairs : TRUE
         IN  keywords[p[1]].weight + SumWeights(pairs \ {p})

Occurrences(list, x) == Cardinality({k \in 1..Len(list) : list[k] = x})

\* C5: _score_relevance returns the sum of the category weight over every matching
\* (category, term) pair, one matched term per pair (a term of two categories
\* twice, no cap), and exactly the categories with a matching term; for a text
\* that is empty after trimming it returns 0, no terms and no categories.
C5_ScoreRelevance ==
    \A n \in DOMAIN emails :
        LET r     == ScoreRelevance(emails[n])
            pairs == MatchingPairs(emails[n])
        IN  IF Strip(emails[n].subject \o <<32>> \o emails[n].body) = <<>>
            THEN r.score = 0 /\ r.matched_keywords = <<>> /\ r.matched_categories = {}
            ELSE /\ r.score = SumWeights(pairs)
                 /\ Len(r.matched_keywords) = Cardinality(pairs)
                 /\ \A p \in pairs :
                      Occurrences(r.matched_keywords, keywords[p[1]].terms[p[2]])
                        = Cardinality({q \in pairs : keywords[q[1]].terms[q[2]]
                                                       = keywords[p[1]].terms[p[2]]})
                 /\ r.matched_categories = {keywords[p[1]].name : p \in pairs}

C5_Witness ==
    /\ pc = "searched"
    /\ \E n, m \in DOMAIN emails :
        /\ Len(emails[n].matched_keywords) = 2
        /\ emails[n].matched_keywords[1] = emails[n].matched_keywords[2]
        /\ emails[n].matched_categories = {"a", "b"}
        /\ InResults(n)
        /\ emails[n].relevance_score = 6
        /\ InResults(m)
        /\ Strip(Searchable(emails[m])) = <<>>
        /\ emails[m].matched_keywords = <<>>

\* the pre-fusion score of a document: its score when search() returned
PreScore(k) == snapshot[k].relevance_score

Fused == pc = "done"

\* C6: after the fusion pass a ranked document that received an external score has
\* score = pre-fusion score + 2 * external score; one that received none keeps its
\* pre-fusion score and has ai_relevance_score None and an empty ai_summary.
C6_AdditiveBoost ==
    Fused =>
        \A j \in 1..Len(results) :
            LET k == results[j]
                e == emails[k]
            IN  IF e.ai_relevance_score /= None
                THEN e.relevance_score = PreScore(k) + 2 * e.ai_relevance_score[1]
                ELSE e.relevance_score = PreScore(k) /\ e.ai_summary = <<>>

C6_Witness ==
    /\ Fused
    /\ \E j, m \in 1..Len(results) :
        /\ emails[results[j]].ai_relevance_score = Some(1)
        /\ emails[results[j]].relevance_score = PreScore(results[j]) + 2
        /\ PreScore(results[j]) = 6
        /\ emails[results[m]].ai_relevance_score = None
        /\ emails[results[m]].relevance_score = 8

\* an EmailRecord without the fields the fusion pass may write
Frame(e) ==
    [e EXCEPT !.relevance_score = 0, !.ai_relevance_score = None, !.ai_summary = <<>>]

\* C7: score_emails, the boost loop and the re-sort leave matched_companies,
\* matched_categories, matched_keywords and every other field but relevance_score,
\* ai_relevance_score and ai_summary as search() left them, and the list stays a
\* permutation of the list search() returned.
C7_FusionFrame ==
    SearchReturned =>
        /\ \A k \in DOMAIN emails : Frame(emails[k]) = Frame(snapshot[k])
        /\ Len(results) = Len(ranked)
        /\ \A k \in DOMAIN emails : Occurrences(results, k) = Occurrences(ranked, k)

C7_Witness ==
    /\ Fused
    /\ results /= ranked
    /\ \E j \in 1..Len(results) :
        /\ emails[results[j]].ai_summary = Summary
        /\ emails[results[j]].relevance_score /= PreScore(results[j])
        /\ emails[results[j]].matched_keywords /= <<>>
    /\ \E j \in 1..Len(results) : emails[results[j]].ai_relevance_score = None

\* position of a document in the list search() returned
RankedPos(k) == CHOOSE j \in 1..Len(ranked) : ranked[j] = k

\* C8: after fusion the list is in non-increasing order of the fused score, and
\* documents of equal fused score are in the order search() gave them.
C8_FusionOrder ==
    Fused =>
        \A a, b \in 1..Len(results) :
            a < b =>
                /\ emails[results[a]].relevance_score >= emails[results[b]].relevance_score
                /\ emails[results[a]].relevance_score = emails[results[b]].relevance_score
                     => RankedPos(results[a]) < RankedPos(results[b])

C8_Witness ==
    /\ Fused
    /\ \E a, b \in 1..Len(results) :
        /\ a < b
        /\ emails[results[a]].relevance_score = emails[results[b]].relevance_score
        /\ PreScore(results[a]) > PreScore(results[b])
        /\ StrLess(DateKey(results[b]), DateKey(results[a]))

ScoringStarted == pc \in {"batch", "results", "boost", "done"}

\* C9: a batch whose processing failed contributes no external score: every
\* document of that batch keeps ai_relevance_score None, an empty ai_summary and
\* its pre-fusion score.
C9_FailedBatchContributesNothing ==
    ScoringStarted =>
        \A start \in failed :
            LET batch == Batch(ranked, start, batch_size)
            IN  \A j \in 1..Len(batch) :
                    /\ emails[batch[j]].ai_relevance_score = None
                    /\ emails[batch[j]].ai_summary = <<>>
                    /\ emails[batch[j]].relevance_score = PreScore(batch[j])

\* C10: during a fusion pass no document has its external-score fields assigned
\* more than once, and the scored counter never exceeds the number of documents
\* submitted.
C10_WrittenAtMostOnce ==
    ScoringStarted =>
        /\ \A k \in DOMAIN emails : writes[k] <= 1
        /\ scored <= Len(ranked)

----------------------------------------------------------------------------
(* Inputs for _prepare_companies and _check_companies: company names with    *)
(* several "@", a leading ".", a repeated name; records with empty fields    *)

\* every field empty
DocEmpty == EmailRecord(<<>>, <<>>, <<>>, <<>>, <<>>, <<>>, Some(<<>>), <<>>)
\* cc "Acme", body "new order"; like every record the parsers build, no bcc
DocCc == EmailRecord(<<>>, <<>>, <<>>, <<>>, <<65, 99, 109, 101>>, <<>>, Some(Date1), <<110, 101, 119, 32, 111, 114, 100, 101, 114>>)

MatchPool == {DocA, DocC, DocEmpty, DocCc}

TwoAts == << <<83, 97, 108, 101, 115, 64, 111, 108, 100, 64, 65, 99, 109, 101, 46, 99, 111, 109>> >>               \* "Sales@old@Acme.com"
OneAt == << <<66, 111, 98, 64, 66, 101, 116, 97, 46, 111, 114, 103>> >>                 \* "Bob@Beta.org"
LeadingDot == << <<46, 99, 111, 109>> >>           \* ".com"
Repeated == << <<97, 99, 109, 101, 46, 99, 111, 109>>, <<97, 99, 109, 101, 46, 99, 111, 109>> >>   \* "acme.com", "acme.com"

SpaceDot == << <<65, 99, 109, 101, 32, 46, 99, 111, 109>> >>     \* "Acme .com"

MatchCompanyLists == {TwoAts, OneAt, LeadingDot, Repeated, SpaceDot, AcmeAndBeta}

MatchInit == InitWith(MatchPool, MatchCompanyLists, {OrderLead})

MatchSpec == MatchInit /\ [][SearchNext]_vars

\* the text after the last "@" of a name, lowercased
LastDomain(name) ==
    LET parts == Split(name, 64)
    IN  Lower(parts[Len(parts)])

\* C11: for a party name containing "@", the variations hold the lowercase text
\* after the last "@" and the part of that text before its first ".".
C11_DomainVariants ==
    \A c \in 1..Len(companies) :
        Contains(<<64>>, companies[c].original) =>
            /\ LastDomain(companies[c].original) \in companies[c].variations
            /\ Split(LastDomain(companies[c].original), 46)[1] \in companies[c].variations

\* C12: the relevance score of every document in the result list is a
\* non-negative integer, after search() and after fusion, whatever scores the
\* external scorer returns.
C12_ScoreNonNegative ==
    \A j \in 1..Len(results) :
        /\ emails[results[j]].relevance_score \in Int
        /\ emails[results[j]].relevance_score >= 0


\* the party lists obtained from the searcher's list by adding the names of a
\* further list, before or after it
ExtendedLists ==
    UNION {{companies \o PrepareCompanies(raw), PrepareCompanies(raw) \o companies} :
             raw \in CompanyLists}

\* C13: a document that search() included under the party list P is included
\* under every party list obtained by adding names to P, with the same score.
C13_MonotoneInParties ==
    pc = "searched" =>
        \A j \in 1..Len(results) : \A cs \in ExtendedLists :
            LET e  == emails[results[j]]
                mc == CheckCompaniesFrom(cs, e)
                kw == ScoreRelevance(e).score
            IN  /\ IsHit(mc, kw) \/ IsCompanyOnly(mc, kw)
                /\ e.relevance_score =
                      (IF IsHit(mc, kw) THEN HitScore(kw) ELSE MinimumScore)

C13_Witness ==
    /\ pc = "searched"
    /\ \E j, m \in 1..Len(results) : \E cs \in ExtendedLists :
        /\ Len(emails[results[j]].matched_companies) = 1
        /\ Len(CheckCompaniesFrom(cs, emails[results[j]])) = 3
        /\ emails[results[j]].relevance_score = 12
        /\ emails[results[m]].relevance_score = 1
        /\ Len(CheckCompaniesFrom(cs, emails[results[m]])) > 1


\* the address-first-then-content rule for one party entry and one address haystack
TwoPhase(entry, email, haystack) ==
    LET inAddress == \E v \in entry.variations : Contains(v, haystack)
        inContent == \E v \in entry.variations :
                        \/ Contains(v, Lower(email.subject))
                        \/ Contains(v, Lower(email.body))
    IN  inAddress \/ (~inAddress /\ inContent)

\* the originals of the entries the rule selects, each decided on its own, in the
\* order of the party list
TwoPhaseMatched(email, haystack) ==
    LET hit == SelectSeq(companies, LAMBDA entry : TwoPhase(entry, email, haystack))
    IN  [c \in 1..Len(hit) |-> hit[c].original]

FourFields(email) ==
    Lower(JoinSpace(<<email.sender, email.sender_email, email.recipients, email.cc>>))

FiveFields(email) ==
    Lower(JoinSpace(<<email.sender, email.sender_email, email.recipients, email.cc,
                      email.bcc>>))

\* C14 as stated: _check_companies records exactly the entries the two-phase rule
\* selects over the haystack of sender name, sender address, recipients and cc.
C14_FourFieldHaystack ==
    pc = "searched" =>
        \A k \in DOMAIN emails :
            /\ CheckCompanies(emails[k]) = TwoPhaseMatched(emails[k], FourFields(emails[k]))
            /\ InResults(k) =>
                 emails[k].matched_companies = TwoPhaseMatched(emails[k], FourFields(emails[k]))

\* C14: _check_companies records exactly the entries the two-phase rule selects
\* over the haystack of sender name, sender address, recipients, cc and bcc joined
\* by single spaces; each entry is decided on its own, and the per-variant
\* interleaved loop gives the same entries as the two-phase rule.
C14_TwoPhaseMatching ==
    pc = "searched" =>
        \A k \in DOMAIN emails :
            /\ CheckCompanies(emails[k]) = TwoPhaseMatched(emails[k], FiveFields(emails[k]))
            /\ InResults(k) =>
                 emails[k].matched_companies = TwoPhaseMatched(emails[k], FiveFields(emails[k]))

C14_Witness ==
    /\ pc = "searched"
    /\ \E j, m \in 1..Len(results) :
        /\ emails[results[j]].matched_companies /= <<>>
        /\ TwoPhaseMatched(emails[results[j]], FourFields(emails[results[j]])) = <<>>
        /\ Len(emails[results[m]].matched_companies) = 1
        /\ \A c \in 1..Len(companies) : \A v \in companies[c].variations :
              ~Contains(v, FiveFields(emails[results[m]]))


\* C15: no original name appears more than once in a document's
\* matched_companies, whatever the party list.
C15_MatchedPartiesFormSet ==
    \A k \in DOMAIN emails :
        \A a, b \in 1..Len(emails[k].matched_companies) :
            emails[k].matched_companies[a] = emails[k].matched_companies[b] => a = b


\* C16: after any sequence of search() runs over the same records, every document
\* of the latest result list carries the matched_companies, matched_categories
\* and matched_keywords that _check_companies and _score_relevance give under the
\* latest party list and taxonomy.
C16_NoStaleAnnotations ==
    pc = "searched" =>
        \A j \in 1..Len(results) :
            LET e == emails[results[j]]
            IN  /\ e.matched_companies = CheckCompanies(e)
                /\ e.matched_keywords = ScoreRelevance(e).matched_keywords
                /\ e.matched_categories = ScoreRelevance(e).matched_categories

\* C17: after any number of search() calls on one EmailSearcher each qualifying
\* document appears exactly once in self.results.
C17_EachDocumentOnce ==
    pc = "searched" =>
        \A k \in DOMAIN emails :
            Occurrences(results, k) = (IF PartyMatched(emails[k]) THEN 1 ELSE 0)


\* C18: after search() every document that is not in the result list is in its
\* default state: relevance_score 0 and empty matched_keywords,
\* matched_categories and matched_companies.
C18_ExcludedLeftUnannotated ==
    pc = "searched" =>
        \A k \in DOMAIN emails :
            ~InResults(k) =>
                /\ emails[k].relevance_score = 0
                /\ emails[k].matched_keywords = <<>>
                /\ emails[k].matched_categories = {}
                /\ emails[k].matched_companies = <<>>


\* C19: no party entry has the empty string among its variations, and so a
\* document whose address fields, subject and body are all empty matches no entry.
C19_NoEmptyVariant ==
    /\ \A c \in 1..Len(companies) : <<>> \notin companies[c].variations
    /\ pc = "searched" =>
         \A k \in DOMAIN emails :
            (/\ AddressText(emails[k]) = <<32, 32, 32, 32>>
             /\ emails[k].subject = <<>>
             /\ emails[k].body = <<>>) => ~InResults(k)

\* C20: in the list search() returns, every document that matched a party and at
\* least one keyword comes before every document that matched a party only,
\* whatever their dates (the weights of the taxonomy being positive).
C20_KeywordMatchesFirst ==
    pc = "searched" =>
        \A a, b \in 1..Len(results) :
            /\ ScoreRelevance(emails[results[a]]).matched_keywords /= <<>>
            /\ ScoreRelevance(emails[results[b]]).matched_keywords = <<>>
            => a < b

C20_Witness ==
    /\ pc = "searched"
    /\ \E a, b \in 1..Len(results) :
        /\ a < b
        /\ ScoreRelevance(emails[results[a]]).matched_keywords /= <<>>
        /\ ScoreRelevance(emails[results[b]]).matched_keywords = <<>>
        /\ emails[results[b]].relevance_score = MinimumScore
        /\ StrLess(DateKey(results[b]), DateKey(results[a]))
        /\ results[b] < results[a]


\* the entries with all three keys that a response to a batch of n documents may hold
CompleteEntries(n) ==
    {r \in ResultEntriesOver(n, UnvalidatedScores) :
        r.email_number /= None /\ r.score /= None /\ r.summary /= None}

\* C21: the batches of score_emails are the consecutive slices of at most
\* batch_size documents of the list, in order; an entry of a response is applied
\* only to the document at position email_number - 1 of the batch of that request,
\* and an entry whose email_number is 0, negative or greater than the batch length
\* changes no document.
C21_BatchesAndEntries ==
    pc \in {"batch", "results"} =>
        /\ i % batch_size = 0
        /\ \A start \in {b \in 0..(Len(results) - 1) : b % batch_size = 0} :
              Batch(results, start, batch_size) =
                  [n \in 1..Min(batch_size, Len(results) - start) |-> results[start + n]]
        /\ pc = "results" =>
             LET size == Min(batch_size, Len(results) - i)
             IN  \A result \in CompleteEntries(size) :
                   LET n == result.email_number[1]
                       after == WriteEntry(emails, Batch(results, i, batch_size), result)
                   IN  IF 1 <= n /\ n <= size
                       THEN after = [emails EXCEPT
                                ![results[i + n]].ai_relevance_score = result.score,
                                ![results[i + n]].ai_summary = result.summary[1]]
                       ELSE after = emails

C21_Witness ==
    /\ pc = "results"
    /\ batch_size = 2
    /\ i = 2
    /\ entries = 2
    /\ scored = 1
    /\ writes[results[3]] = 1
    /\ emails[results[3]].ai_relevance_score = Some(1)
    /\ \A k \in DOMAIN emails : k /= results[3] => writes[k] = 0


\* C22: at the end of a first search() the number of results equals
\* company_matches, both_matches equals the number of results whose keyword score
\* is positive, and both_matches is at most min(company_matches, keyword_matches).
C22_CountersConsistent ==
    pc = "searched" =>
        /\ Len(results) = counters.company_matches
        /\ counters.both_matches =
              Cardinality({j \in 1..Len(results) :
                             ScoreRelevance(emails[results[j]]).score > 0})
        /\ counters.both_matches <= Min(counters.company_matches, counters.keyword_matches)

C22_Witness ==
    /\ pc = "searched"
    /\ Len(emails) = 3
    /\ counters = [company_matches |-> 2, keyword_matches |-> 2, both_matches |-> 1]
    /\ \E j \in 1..Len(results) : Len(emails[results[j]].matched_companies) > 1

====
